---- MODULE Spec2Model ----
(***************************************************************************)
(* Pricematch MCP worker (src/src/index.ts, gated variant, lines 157-331). *)
(*                                                                         *)
(* The worker's fetch handler checks a shared secret, then routes the      *)
(* request to one of two transport endpoints of the MCP SDK.  The SDK      *)
(* validates a tool invocation against the tool's zod schema and calls the *)
(* tool handler registered in MyMCP.init.  Two handlers await outbound     *)
(* fetch calls; the environment settles those calls.                       *)
(*                                                                         *)
(* JavaScript values are tagged records, so that a string, a number, null  *)
(* and undefined stay distinct.  Header values and paths are sequences of  *)
(* characters, because the fetch handler inspects their characters; tool   *)
(* texts are strings.                                                      *)
(***************************************************************************)
EXTENDS Integers, Sequences, FiniteSets, TLC

VARIABLES
    env,         \* Env: FIRECRAWL_API_KEY and MCP_API_KEY
    method,      \* request.method of the latest request
    pathname,    \* url.pathname of the latest request
    apiKey,      \* the fetch handler's local apiKey for the latest request
    response,    \* what fetch returned: "none", "401", "404", "sse", "mcp"
    inv,         \* the tool invocation the SDK is dispatching
    pc,          \* "idle", "rejected", "awaitAll", "awaitFetch", "answered", "threw"
    walmart,     \* first outbound search call of find_product_urls
    target,      \* second outbound search call of find_product_urls
    extract,     \* outbound call of extract_product_price
    result,      \* what the tool handler returned
    fetchCount   \* outbound fetch calls issued by the current invocation

vars == <<env, method, pathname, apiKey, response, inv, pc,
          walmart, target, extract, result, fetchCount>>

-----------------------------------------------------------------------------
(* JavaScript values *)

Undefined == [t |-> "undefined"]
JNull == [t |-> "null"]
Str(s) == [t |-> "str", s |-> s]
Bool(b) == [t |-> "bool", b |-> b]
\* A number n/d in lowest terms, d > 0.
Num(n, d) == [t |-> "num", n |-> n, d |-> d]
IntNum(n) == Num(n, 1)
Arr(a) == [t |-> "arr", a |-> a]
Obj(f) == [t |-> "obj", f |-> f]
\* The completion of an expression that throws.
Throw == [t |-> "throw"]

IsThrow(v) == v.t = "throw"
Nullish(v) == v.t \in {"undefined", "null"}

\* ToBoolean.
Truthy(v) ==
    CASE v.t = "undefined" -> FALSE
      [] v.t = "null" -> FALSE
      [] v.t = "str" -> Len(v.s) > 0
      [] v.t = "num" -> v.n # 0
      [] v.t = "bool" -> v.b
      [] OTHER -> TRUE

\* a || b
Or(a, b) == IF Truthy(a) THEN a ELSE b

\* a === b
StrictEq(a, b) == a = b

\* v.name on a value that is not null or undefined
GetProp(v, name) ==
    IF v.t = "obj" /\ name \in DOMAIN v.f THEN v.f[name] ELSE Undefined

\* v.name
Member(v, name) ==
    IF IsThrow(v) \/ Nullish(v) THEN Throw ELSE GetProp(v, name)

\* v?.name
OptMember(v, name) ==
    IF IsThrow(v) THEN Throw
    ELSE IF Nullish(v) THEN Undefined
    ELSE GetProp(v, name)

\* v?.[i]
OptIndex(v, i) ==
    IF IsThrow(v) THEN Throw
    ELSE IF Nullish(v) THEN Undefined
    ELSE IF v.t = "arr" /\ i < Len(v.a) THEN v.a[i + 1]
    ELSE Undefined

-----------------------------------------------------------------------------
(* Numbers *)

Abs(n) == IF n < 0 THEN -n ELSE n

RECURSIVE Gcd(_, _)
Gcd(a, b) == IF b = 0 THEN a ELSE Gcd(b, a % b)

\* n/d in lowest terms with a positive denominator (d # 0).
Ratio(n, d) ==
    LET g == Gcd(Abs(n), Abs(d))
        s == IF d < 0 THEN -1 ELSE 1
    IN  Num((s * n) \div g, (s * d) \div g)

\* Digits String(number) gives after the decimal point for the quotients of
\* small integers (1/3 is "0.3333333333333333").
FractionDigits == 16

RECURSIVE Fraction(_, _, _)
Fraction(r, d, k) ==
    IF r = 0 \/ k = 0 THEN ""
    ELSE ToString((10 * r) \div d) \o Fraction((10 * r) % d, d, k - 1)

\* String(x) of a number
NumberToString(x) ==
    LET a == Abs(x.n)
    IN  (IF x.n < 0 THEN "-" ELSE "")
        \o ToString(a \div x.d)
        \o (IF a % x.d = 0 THEN "" ELSE "." \o Fraction(a % x.d, x.d, FractionDigits))

\* String(v)
String(v) ==
    CASE v.t = "str" -> v
      [] v.t = "num" -> Str(NumberToString(v))
      [] v.t = "bool" -> Str(IF v.b THEN "true" ELSE "false")
      [] v.t = "null" -> Str("null")
      [] v.t = "undefined" -> Str("undefined")
      [] OTHER -> Str("[object Object]")

-----------------------------------------------------------------------------
(* The access gate and the routing of the fetch handler *)

Bearer == <<"B", "e", "a", "r", "e", "r", " ">>
SsePath == <<"/", "s", "s", "e">>
SsePrefix == <<"/", "s", "s", "e", "/">>
McpPath == <<"/", "m", "c", "p">>

\* s.startsWith(p)
StartsWith(s, p) == Len(s) >= Len(p) /\ SubSeq(s, 1, Len(p)) = p

\* The index of the first occurrence of pat in s at or after i, 0 if none.
RECURSIVE IndexOf(_, _, _)
IndexOf(s, pat, i) ==
    IF i + Len(pat) - 1 > Len(s) THEN 0
    ELSE IF SubSeq(s, i, i + Len(pat) - 1) = pat THEN i
    ELSE IndexOf(s, pat, i + 1)

\* s.replace(pat, rep) with a string pattern: the first occurrence only
Replace(s, pat, rep) ==
    LET i == IndexOf(s, pat, 1)
    IN  IF i = 0 THEN s
        ELSE SubSeq(s, 1, i - 1) \o rep \o SubSeq(s, i + Len(pat), Len(s))

\* request.headers.get('api-key') ||
\*     (request.headers.get('authorization')?.replace('Bearer ', ''))
PresentedKey(headers) ==
    LET auth == headers.authorization
    IN  Or(headers.apiKey,
           IF Nullish(auth) THEN Undefined ELSE Str(Replace(auth.s, Bearer, <<>>)))

\* Faulty variant: a request that presents no credential is let through.
UnauthorizedOnlyIfPresented(m, key, expected) ==
    m # "OPTIONS" /\ Truthy(key) /\ ~StrictEq(key, expected)

\* request.method !== 'OPTIONS' && apiKey !== expectedApiKey
Unauthorized(m, key, expected) == m # "OPTIONS" /\ ~StrictEq(key, expected)

\* The endpoint the path is routed to, "404" if none.
Route(path) ==
    IF path = SsePath \/ StartsWith(path, SsePrefix) THEN "sse"
    ELSE IF path = McpPath THEN "mcp"
    ELSE "404"

\* The Response of the fetch handler.
FetchResponse(m, path, key, expected) ==
    IF Unauthorized(m, key, expected) THEN "401" ELSE Route(path)

-----------------------------------------------------------------------------
(* Tool results *)

NoInv == [tool |-> "none"]
NoResult == [kind |-> "none"]
Thrown == [kind |-> "throw"]
TextItem(v) == [type |-> "text", text |-> v]
Return(content) == [kind |-> "return", content |-> content]
Text(s) == Return(<<TextItem(Str(s))>>)

ConfigMissing == Text("Error: Firecrawl API key is not configured.")
FetchError == Text("Error fetching data from Firecrawl.")
FindFailure == Text("An unexpected error occurred.")
ExtractError == Text("Error extracting price from URL.")
ExtractFailure == Text("An unexpected error occurred while extracting the price.")
DivideByZero == Text("Error: Cannot divide by zero")
WalmartNotFound == Str("Walmart URL Not Found")
TargetNotFound == Str("Target URL Not Found")
PriceNotFound == Str("Price not found")

\* try { body } catch (error) { return handler }
TryCatch(body, handler) == IF body.kind = "throw" THEN handler ELSE body

-----------------------------------------------------------------------------
(* Input validation: the zod schemas of the four tools *)

\* Strings new URL() parses, among the ones the model offers.
WellFormedUrls == {"https://example.com/p/123"}

\* Faulty variant: no type check.
ZAny(v) == TRUE

\* z.string()
ZString(v) == v.t = "str"
\* z.string().url()
ZUrl(v) == v.t = "str" /\ v.s \in WellFormedUrls
\* z.number()
ZNumber(v) == v.t = "num"
\* z.enum(["add", "subtract", "multiply", "divide"])
ZOperation(v) == v.t = "str" /\ v.s \in {"add", "subtract", "multiply", "divide"}

Valid(i) ==
    CASE i.tool = "find_product_urls" -> ZString(i.args.productName)
      [] i.tool = "extract_product_price" -> ZUrl(i.args.productUrl)
      [] i.tool = "add" -> ZNumber(i.args.a) /\ ZNumber(i.args.b)
      [] i.tool = "calculate" ->
            ZOperation(i.args.operation) /\ ZNumber(i.args.a) /\ ZNumber(i.args.b)
      [] OTHER -> FALSE

-----------------------------------------------------------------------------
(* Outbound calls *)

Idle == [st |-> "idle"]
Pending == [st |-> "pending"]
Rejected == [st |-> "rejected"]
\* A response: its ok flag, and its body as response.json() gives it
\* (Unparsable when response.json() rejects).
Resolved(ok, body) == [st |-> "resolved", ok |-> ok, body |-> body]
Unparsable == [t |-> "unparsable"]

Settled(c) == c.st \in {"resolved", "rejected"}

\* response.ok
Ok(c) == c.st = "resolved" /\ c.ok

\* Faulty variant: only an unset key counts as missing.
KeyUndefined(key) == key = Undefined

\* !firecrawlApiKey
KeyMissing(key) == ~Truthy(key)

\* Faulty variant: Promise.race, settled as soon as one call is.
AnySettled(w, t) == Settled(w) \/ Settled(t)

\* Faulty variant: a rejection is never delivered.
AllFulfilled(w, t) == w.st = "resolved" /\ t.st = "resolved"

\* Promise.all([w, t]) has settled: fulfilled when both are, rejected as soon
\* as one is.
AllSettled(w, t) ==
    \/ w.st = "rejected"
    \/ t.st = "rejected"
    \/ w.st = "resolved" /\ t.st = "resolved"

\* await response.json()
Json(c) == IF c.st # "resolved" \/ c.body = Unparsable THEN Throw ELSE c.body

\* data.data?.[0]?.url || notFound
FirstUrl(data, notFound) ==
    LET url == OptMember(OptIndex(Member(data, "data"), 0), "url")
    IN  IF IsThrow(url) THEN Throw ELSE Or(url, notFound)

\* Faulty variant: the fetch error only when both responses failed.
FindBodyBothFailed(w, t) ==
    IF w.st = "rejected" \/ t.st = "rejected" THEN Thrown
    ELSE IF ~Ok(w) /\ ~Ok(t) THEN FetchError
    ELSE LET walmartUrl == FirstUrl(Json(w), WalmartNotFound)
             targetUrl == FirstUrl(Json(t), TargetNotFound)
         IN  IF IsThrow(walmartUrl) \/ IsThrow(targetUrl) THEN Thrown
             ELSE Return(<<TextItem(walmartUrl), TextItem(targetUrl)>>)

\* Faulty variant: the two items in the other order.
FindBodySwapped(w, t) ==
    IF w.st = "rejected" \/ t.st = "rejected" THEN Thrown
    ELSE IF ~Ok(w) \/ ~Ok(t) THEN FetchError
    ELSE LET walmartUrl == FirstUrl(Json(w), WalmartNotFound)
             targetUrl == FirstUrl(Json(t), TargetNotFound)
         IN  IF IsThrow(walmartUrl) \/ IsThrow(targetUrl) THEN Thrown
             ELSE Return(<<TextItem(targetUrl), TextItem(walmartUrl)>>)

\* The try block of find_product_urls once Promise.all has settled.
FindBody(w, t) ==
    IF w.st = "rejected" \/ t.st = "rejected" THEN Thrown
    ELSE IF ~Ok(w) \/ ~Ok(t) THEN FetchError
    ELSE LET walmartData == Json(w)
             targetData == Json(t)
             walmartUrl == FirstUrl(walmartData, WalmartNotFound)
             targetUrl == FirstUrl(targetData, TargetNotFound)
         IN  IF IsThrow(walmartData) \/ IsThrow(targetData)
                \/ IsThrow(walmartUrl) \/ IsThrow(targetUrl)
             THEN Thrown
             ELSE Return(<<TextItem(walmartUrl), TextItem(targetUrl)>>)

FindResult(w, t) == TryCatch(FindBody(w, t), FindFailure)

\* extractedData.data?.price || "Price not found"
Price(data) ==
    LET price == OptMember(Member(data, "data"), "price")
    IN  IF IsThrow(price) THEN Throw ELSE Or(price, PriceNotFound)

\* Faulty variant: the price as read, without String().
ExtractBodyRaw(c) ==
    IF c.st = "rejected" THEN Thrown
    ELSE IF ~Ok(c) THEN ExtractError
    ELSE LET price == Price(Json(c))
         IN  IF IsThrow(price) THEN Thrown ELSE Return(<<TextItem(price)>>)

\* The try block of extract_product_price once fetch has settled.
ExtractBody(c) ==
    IF c.st = "rejected" THEN Thrown
    ELSE IF ~Ok(c) THEN ExtractError
    ELSE LET extractedData == Json(c)
             price == Price(extractedData)
         IN  IF IsThrow(extractedData) \/ IsThrow(price) THEN Thrown
             ELSE Return(<<TextItem(String(price))>>)

ExtractResult(c) == TryCatch(ExtractBody(c), ExtractFailure)

-----------------------------------------------------------------------------
(* Arithmetic tools *)

\* add: String(a + b)
AddResult(a, b) == Return(<<TextItem(String(IntNum(a.n + b.n)))>>)

\* Faulty variant: no check of b; a / 0 is Infinity, -Infinity or NaN.
CalculateUnchecked(operation, a, b) ==
    CASE operation = "add" -> Return(<<TextItem(String(IntNum(a.n + b.n)))>>)
      [] operation = "subtract" -> Return(<<TextItem(String(IntNum(a.n - b.n)))>>)
      [] operation = "multiply" -> Return(<<TextItem(String(IntNum(a.n * b.n)))>>)
      [] operation = "divide" ->
            IF b.n = 0
            THEN Text(IF a.n = 0 THEN "NaN" ELSE IF a.n < 0 THEN "-Infinity" ELSE "Infinity")
            ELSE Return(<<TextItem(String(Ratio(a.n, b.n)))>>)

\* calculate
CalculateResult(operation, a, b) ==
    CASE operation = "add" -> Return(<<TextItem(String(IntNum(a.n + b.n)))>>)
      [] operation = "subtract" -> Return(<<TextItem(String(IntNum(a.n - b.n)))>>)
      [] operation = "multiply" -> Return(<<TextItem(String(IntNum(a.n * b.n)))>>)
      [] operation = "divide" ->
            IF b.n = 0 THEN DivideByZero
            ELSE Return(<<TextItem(String(Ratio(a.n, b.n)))>>)

-----------------------------------------------------------------------------
(* Inputs *)

\* Operands of the arithmetic tools range over -MaxOperand .. MaxOperand.
MaxOperand == 2

Methods == {"GET", "POST", "OPTIONS"}
Paths == {SsePath, SsePrefix \o <<"m">>, McpPath, SsePath \o <<"x">>, <<"/">>}
ApiKeyHeaders == {JNull, Str(<<>>), Str(<<"a">>), Str(<<"b">>)}
AuthorizationHeaders ==
    {JNull, Str(<<"a">>), Str(Bearer), Str(Bearer \o <<"a">>),
     Str(Bearer \o <<"b">>), Str(<<"x">> \o Bearer \o <<"a">>)}
Requests ==
    [method : Methods, pathname : Paths,
     headers : [apiKey : ApiKeyHeaders, authorization : AuthorizationHeaders]]

McpApiKeys == {Undefined, Str(<<>>), Str(<<"a">>)}
FirecrawlApiKeys == {Undefined, Str(""), Str("fc-key")}

WalmartPage == Str("https://www.walmart.com/ip/1")
TargetPage == Str("https://www.target.com/p/2")
Urls == {Undefined, JNull, Str(""), WalmartPage, TargetPage, IntNum(42)}
SearchBodies ==
    {Unparsable, JNull, Obj(<<>>), Obj([data |-> JNull]), Obj([data |-> Arr(<<>>)]),
     Obj([data |-> Arr(<<JNull>>)])}
    \cup {Obj([data |-> Arr(<<Obj([url |-> u])>>)]) : u \in Urls}
SearchOutcomes ==
    {Rejected, Resolved(FALSE, Unparsable)} \cup {Resolved(TRUE, b) : b \in SearchBodies}

Prices ==
    {Undefined, JNull, Str(""), Str("19.99"), IntNum(0), IntNum(42), Bool(FALSE),
     Bool(TRUE), Obj(<<>>)}
ExtractBodies ==
    {Unparsable, JNull, Obj(<<>>), Obj([data |-> JNull])}
    \cup {Obj([data |-> Obj([price |-> p])]) : p \in Prices}
ExtractOutcomes ==
    {Rejected, Resolved(FALSE, Unparsable)} \cup {Resolved(TRUE, b) : b \in ExtractBodies}

Operands == {IntNum(n) : n \in -MaxOperand .. MaxOperand}
FindInvocations ==
    {[tool |-> "find_product_urls", args |-> [productName |-> v]] :
        v \in {Undefined, IntNum(1), Str(""), Str("Echo Dot")}}
ExtractInvocations ==
    {[tool |-> "extract_product_price", args |-> [productUrl |-> v]] :
        v \in {Undefined, Str(""), Str("not a url"), Str("https://example.com/p/123")}}
AddInvocations ==
    {[tool |-> "add", args |-> [a |-> a, b |-> b]] :
        a \in Operands \cup {Str("1")}, b \in Operands}
CalculateInvocations ==
    {[tool |-> "calculate", args |-> [operation |-> Str(o), a |-> a, b |-> b]] :
        o \in {"add", "subtract", "multiply", "divide", "modulo"},
        a \in Operands, b \in Operands \cup {Undefined}}
Invocations ==
    FindInvocations \cup ExtractInvocations \cup AddInvocations \cup CalculateInvocations

-----------------------------------------------------------------------------
(* The state machine *)

Init ==
    /\ env \in [FIRECRAWL_API_KEY : FirecrawlApiKeys, MCP_API_KEY : McpApiKeys]
    /\ method = "none"
    /\ pathname = <<>>
    /\ apiKey = Undefined
    /\ response = "none"
    /\ inv = NoInv
    /\ pc = "idle"
    /\ walmart = Idle
    /\ target = Idle
    /\ extract = Idle
    /\ result = NoResult
    /\ fetchCount = 0

\* The values the state takes.
TypeOK ==
    /\ env \in [FIRECRAWL_API_KEY : FirecrawlApiKeys, MCP_API_KEY : McpApiKeys]
    /\ method \in Methods \cup {"none"}
    /\ pathname \in Paths \cup {<<>>}
    /\ apiKey.t \in {"undefined", "str"}
    /\ response \in {"none", "401", "404", "sse", "mcp"}
    /\ inv \in Invocations \cup {NoInv}
    /\ pc \in {"idle", "rejected", "awaitAll", "awaitFetch", "answered", "threw"}
    /\ walmart \in {Idle, Pending} \cup SearchOutcomes
    /\ target \in {Idle, Pending} \cup SearchOutcomes
    /\ extract \in {Idle, Pending} \cup ExtractOutcomes
    /\ result.kind \in {"none", "return", "throw"}
    /\ fetchCount \in 0 .. 2

\* No tool handler is running.
Quiet == pc \in {"idle", "rejected", "answered", "threw"}

\* The position after a handler completed with r.
After(r) == IF r.kind = "throw" THEN "threw" ELSE "answered"

\* export default { fetch(request, env, ctx) }
Fetch(request) ==
    /\ response = "none"
    /\ method' = request.method
    /\ pathname' = request.pathname
    /\ apiKey' = PresentedKey(request.headers)
    /\ response' = FetchResponse(request.method, request.pathname,
                                 PresentedKey(request.headers), env.MCP_API_KEY)
    /\ inv' = NoInv
    /\ pc' = "idle"
    /\ walmart' = Idle
    /\ target' = Idle
    /\ extract' = Idle
    /\ result' = NoResult
    /\ fetchCount' = 0
    /\ UNCHANGED env

\* The transport endpoint was reached and hands the invocation the request
\* carries to the server.  Both transports take tool calls as POST messages.
Dispatched(i) ==
    /\ pc = "idle"
    /\ inv = NoInv
    /\ response \in {"sse", "mcp"}
    /\ method = "POST"
    /\ inv' = i
    /\ UNCHANGED <<env, method, pathname, apiKey, response>>

\* The invocation fails its inputSchema: no handler runs.
Reject(i) ==
    /\ Dispatched(i)
    /\ ~Valid(i)
    /\ pc' = "rejected"
    /\ result' = NoResult
    /\ fetchCount' = 0
    /\ walmart' = Idle
    /\ target' = Idle
    /\ extract' = Idle

\* find_product_urls up to its await
CallFind(i) ==
    /\ Dispatched(i)
    /\ Valid(i)
    /\ i.tool = "find_product_urls"
    /\ extract' = Idle
    /\ IF KeyMissing(env.FIRECRAWL_API_KEY)
       THEN /\ result' = ConfigMissing
            /\ pc' = "answered"
            /\ fetchCount' = 0
            /\ walmart' = Idle
            /\ target' = Idle
       ELSE /\ result' = NoResult
            /\ pc' = "awaitAll"
            /\ fetchCount' = 2
            /\ walmart' = Pending
            /\ target' = Pending

\* The first search call settles.
WalmartSettles(o) ==
    /\ walmart = Pending
    /\ walmart' = o
    /\ UNCHANGED <<env, method, pathname, apiKey, response, inv, pc,
                   target, extract, result, fetchCount>>

\* The second search call settles.
TargetSettles(o) ==
    /\ target = Pending
    /\ target' = o
    /\ UNCHANGED <<env, method, pathname, apiKey, response, inv, pc,
                   walmart, extract, result, fetchCount>>

\* find_product_urls from its await to its return
ResumeFind ==
    /\ pc = "awaitAll"
    /\ AllSettled(walmart, target)
    /\ result' = FindResult(walmart, target)
    /\ pc' = After(FindResult(walmart, target))
    /\ UNCHANGED <<env, method, pathname, apiKey, response, inv,
                   walmart, target, extract, fetchCount>>

\* extract_product_price up to its await
CallExtract(i) ==
    /\ Dispatched(i)
    /\ Valid(i)
    /\ i.tool = "extract_product_price"
    /\ walmart' = Idle
    /\ target' = Idle
    /\ IF KeyMissing(env.FIRECRAWL_API_KEY)
       THEN /\ result' = ConfigMissing
            /\ pc' = "answered"
            /\ fetchCount' = 0
            /\ extract' = Idle
       ELSE /\ result' = NoResult
            /\ pc' = "awaitFetch"
            /\ fetchCount' = 1
            /\ extract' = Pending

\* The extraction call settles.
ExtractSettles(o) ==
    /\ extract = Pending
    /\ extract' = o
    /\ UNCHANGED <<env, method, pathname, apiKey, response, inv, pc,
                   walmart, target, result, fetchCount>>

\* extract_product_price from its await to its return
ResumeExtract ==
    /\ pc = "awaitFetch"
    /\ Settled(extract)
    /\ result' = ExtractResult(extract)
    /\ pc' = After(ExtractResult(extract))
    /\ UNCHANGED <<env, method, pathname, apiKey, response, inv,
                   walmart, target, extract, fetchCount>>

\* add
CallAdd(i) ==
    /\ Dispatched(i)
    /\ Valid(i)
    /\ i.tool = "add"
    /\ result' = AddResult(i.args.a, i.args.b)
    /\ pc' = After(AddResult(i.args.a, i.args.b))
    /\ fetchCount' = 0
    /\ walmart' = Idle
    /\ target' = Idle
    /\ extract' = Idle

\* calculate
CallCalculate(i) ==
    /\ Dispatched(i)
    /\ Valid(i)
    /\ i.tool = "calculate"
    /\ result' = CalculateResult(i.args.operation.s, i.args.a, i.args.b)
    /\ pc' = After(CalculateResult(i.args.operation.s, i.args.a, i.args.b))
    /\ fetchCount' = 0
    /\ walmart' = Idle
    /\ target' = Idle
    /\ extract' = Idle

\* The request is over: its response went out and its invocation, if any, is
\* discarded.  Nothing but env outlives a request.
Complete ==
    /\ response # "none"
    /\ Quiet
    /\ method' = "none"
    /\ pathname' = <<>>
    /\ apiKey' = Undefined
    /\ response' = "none"
    /\ inv' = NoInv
    /\ pc' = "idle"
    /\ walmart' = Idle
    /\ target' = Idle
    /\ extract' = Idle
    /\ result' = NoResult
    /\ fetchCount' = 0
    /\ UNCHANGED env

Next ==
    \/ \E request \in Requests : Fetch(request)
    \/ \E i \in Invocations : Reject(i)
    \/ \E i \in FindInvocations : CallFind(i)
    \/ \E i \in ExtractInvocations : CallExtract(i)
    \/ \E i \in AddInvocations : CallAdd(i)
    \/ \E i \in CalculateInvocations : CallCalculate(i)
    \/ \E o \in SearchOutcomes : WalmartSettles(o)
    \/ \E o \in SearchOutcomes : TargetSettles(o)
    \/ \E o \in ExtractOutcomes : ExtractSettles(o)
    \/ ResumeFind
    \/ ResumeExtract
    \/ Complete

Spec == Init /\ [][Next]_vars

\* The event loop runs a handler's continuation once what it awaits has
\* settled; whether and when an outbound call settles is up to the network.
FairSpec == Spec /\ WF_vars(ResumeFind) /\ WF_vars(ResumeExtract)

-----------------------------------------------------------------------------
(* Properties *)

FindTool == inv.tool = "find_product_urls"
ExtractTool == inv.tool = "extract_product_price"
KeyConfigured == Truthy(env.FIRECRAWL_API_KEY)
NotOk(c) == c.st = "resolved" /\ ~c.ok
OkParsed(c) == c.st = "resolved" /\ c.ok /\ c.body # Unparsable
Items(r) == IF r.kind = "return" THEN r.content ELSE <<>>

\* The url field of the first element of a search body's data array,
\* Undefined when there is none.
UrlField(body) ==
    IF body.t = "obj" /\ "data" \in DOMAIN body.f
       /\ body.f.data.t = "arr" /\ Len(body.f.data.a) > 0
       /\ body.f.data.a[1].t = "obj" /\ "url" \in DOMAIN body.f.data.a[1].f
    THEN body.f.data.a[1].f.url
    ELSE Undefined

\* The price field under data of an extraction body, Undefined when there is
\* none.
PriceField(body) ==
    IF body.t = "obj" /\ "data" \in DOMAIN body.f
       /\ body.f.data.t = "obj" /\ "price" \in DOMAIN body.f.data.f
    THEN body.f.data.f.price
    ELSE Undefined

\* C1: in the gated fetch handler, with MCP_API_KEY configured, a request
\* whose method is not OPTIONS and whose presented credential is absent or
\* differs from MCP_API_KEY gets the 401 response, whatever its path, and
\* neither a transport endpoint nor a tool handler is reached for it.
C1_GateRejects ==
    (/\ response # "none"
     /\ env.MCP_API_KEY # Undefined
     /\ method # "OPTIONS"
     /\ (apiKey = Undefined \/ apiKey # env.MCP_API_KEY))
    => (/\ response = "401"
        /\ inv = NoInv
        /\ pc = "idle"
        /\ result = NoResult
        /\ fetchCount = 0)

C1_Witness ==
    /\ response = "401"
    /\ method = "POST"
    /\ pathname = McpPath
    /\ apiKey = Undefined
    /\ env.MCP_API_KEY = Str(<<"a">>)

\* C2 as stated: whenever at least one of the two search calls completes with
\* a non-success status, find_product_urls returns the one fetch-error item.
C2_Original ==
    (pc = "answered" /\ FindTool /\ KeyConfigured /\ (NotOk(walmart) \/ NotOk(target)))
    => result = FetchError

\* C2 amended: when both search calls complete with a response and at least
\* one has a non-success status, find_product_urls returns exactly the one
\* fetch-error item; when the other call rejects instead, it returns the one
\* generic-failure item; in neither case a URL of the other call.
C2_FetchError ==
    (pc = "answered" /\ FindTool /\ KeyConfigured /\ (NotOk(walmart) \/ NotOk(target)))
    => IF walmart.st = "resolved" /\ target.st = "resolved"
       THEN result = FetchError
       ELSE result = FindFailure

C2_Witness ==
    /\ pc = "answered"
    /\ FindTool
    /\ NotOk(walmart)
    /\ target = Resolved(TRUE, Obj([data |-> Arr(<<Obj([url |-> TargetPage])>>)]))
    /\ result = FetchError

\* C3: with no FIRECRAWL_API_KEY configured, find_product_urls and
\* extract_product_price return the one configuration-missing item and no
\* outbound call is ever issued, whatever the arguments and whatever came
\* before.
C3_NoKeyNoCalls ==
    ~KeyConfigured
    => (/\ fetchCount = 0
        /\ walmart = Idle
        /\ target = Idle
        /\ extract = Idle
        /\ pc \notin {"awaitAll", "awaitFetch", "threw"}
        /\ (pc = "answered" /\ (FindTool \/ ExtractTool) => result = ConfigMissing))

C3_Witness ==
    /\ env.FIRECRAWL_API_KEY = Str("")
    /\ pc = "answered"
    /\ ExtractTool
    /\ result = ConfigMissing

\* C4: a handler invoked with validated input never throws and returns a
\* result whose content is a non-empty sequence of text items, each carrying
\* a string.
C4_TextResult ==
    pc \in {"answered", "threw"}
    => (/\ result.kind = "return"
        /\ Len(result.content) > 0
        /\ \A k \in 1 .. Len(result.content) :
              /\ result.content[k].type = "text"
              /\ result.content[k].text.t = "str")

\* C5 as stated: with both search calls successful and their bodies parsable,
\* the result is the two items [walmart, target], each the url field of the
\* first element of its own response if the field is present, else the
\* site's sentinel.
C5_Original ==
    (pc = "answered" /\ FindTool /\ OkParsed(walmart) /\ OkParsed(target))
    => result = Return(
          <<TextItem(IF ~Nullish(UrlField(walmart.body))
                     THEN UrlField(walmart.body) ELSE WalmartNotFound),
            TextItem(IF ~Nullish(UrlField(target.body))
                     THEN UrlField(target.body) ELSE TargetNotFound)>>)

\* C5 amended: with both search calls successful and their bodies parsable
\* and not null, the result is the two items [walmart, target], each the url
\* field of the first element of its own response if the field is present
\* and truthy, else (absent, or falsy such as the empty string) the site's
\* sentinel; the two are never swapped.
C5_TwoItems ==
    (/\ pc = "answered"
     /\ FindTool
     /\ OkParsed(walmart)
     /\ OkParsed(target)
     /\ walmart.body # JNull
     /\ target.body # JNull)
    => result = Return(
          <<TextItem(IF Truthy(UrlField(walmart.body))
                     THEN UrlField(walmart.body) ELSE WalmartNotFound),
            TextItem(IF Truthy(UrlField(target.body))
                     THEN UrlField(target.body) ELSE TargetNotFound)>>)

C5_Witness ==
    /\ pc = "answered"
    /\ FindTool
    /\ walmart = Resolved(TRUE, Obj([data |-> Arr(<<Obj([url |-> WalmartPage])>>)]))
    /\ target = Resolved(TRUE, Obj([data |-> Arr(<<>>)]))
    /\ result = Return(<<TextItem(WalmartPage), TextItem(TargetNotFound)>>)

\* C6 as stated: with the extraction call successful and a price field under
\* data, the result is the one item holding the field's string form, and the
\* sentinel is returned only when the field is absent.
C6_Original ==
    (pc = "answered" /\ ExtractTool /\ OkParsed(extract))
    => /\ ~Nullish(PriceField(extract.body))
          => result = Return(<<TextItem(String(PriceField(extract.body)))>>)
       /\ result = Return(<<TextItem(PriceNotFound)>>)
          => Nullish(PriceField(extract.body))

\* C6 amended: with the extraction call successful and its body parsable and
\* not null, the result is the one item holding the string form of the price
\* field under data if the field is present and truthy, and the sentinel
\* 'Price not found' if it is absent or falsy (empty string, 0, null, false).
C6_PriceText ==
    (pc = "answered" /\ ExtractTool /\ OkParsed(extract) /\ extract.body # JNull)
    => result = Return(
          <<TextItem(IF Truthy(PriceField(extract.body))
                     THEN String(PriceField(extract.body)) ELSE PriceNotFound)>>)

C6_Witness ==
    /\ pc = "answered"
    /\ ExtractTool
    /\ inv.args.productUrl = Str("https://example.com/p/123")
    /\ extract = Resolved(TRUE, Obj([data |-> Obj([price |-> IntNum(42)])]))
    /\ result = Text("42")

\* C7 as stated: a find_product_urls invocation whose productName is not a
\* non-empty string is rejected before the handler runs, and no outbound call
\* is issued for it.
C7_Original ==
    (FindTool /\ ~(inv.args.productName.t = "str" /\ Len(inv.args.productName.s) > 0))
    => (pc = "rejected" /\ fetchCount = 0)

\* C7 amended: a find_product_urls invocation whose productName is not a
\* string is rejected before the handler runs, and no outbound call is issued
\* for it; every string, the empty one included, passes validation and
\* reaches the handler.
C7_NonStringRejected ==
    FindTool
    => IF inv.args.productName.t = "str"
       THEN pc # "rejected"
       ELSE /\ pc = "rejected"
            /\ result = NoResult
            /\ fetchCount = 0
            /\ walmart = Idle
            /\ target = Idle

C7_Witness ==
    /\ FindTool
    /\ inv.args.productName = IntNum(1)
    /\ pc = "rejected"
    /\ KeyConfigured

\* The numbers q with q * b = a.
Quotients(a, b) ==
    {q \in {Ratio(n, d) : n \in -MaxOperand .. MaxOperand, d \in 1 .. MaxOperand} :
        q.n * b.n = a.n * q.d}

\* C8: calculate with 'divide' returns the one fixed text for b = 0, and for
\* b # 0 one item holding the quotient a / b; it never throws.
C8_Divide ==
    (inv.tool = "calculate" /\ pc # "rejected" /\ inv.args.operation.s = "divide")
    => /\ pc = "answered"
       /\ IF inv.args.b.n = 0
          THEN result = Text("Error: Cannot divide by zero")
          ELSE \E q \in Quotients(inv.args.a, inv.args.b) :
                  result = Return(<<TextItem(Str(NumberToString(q)))>>)

C8_Witness ==
    /\ inv.tool = "calculate"
    /\ inv.args.operation.s = "divide"
    /\ inv.args.a = IntNum(1)
    /\ inv.args.b = IntNum(0)
    /\ result = DivideByZero

\* C9 as stated: find_product_urls produces no result of any kind while one
\* of its two search calls is still outstanding.
C9_Original ==
    (FindTool /\ result # NoResult /\ fetchCount = 2)
    => (Settled(walmart) /\ Settled(target))

\* C9 amended: the two search calls are started together, and no success or
\* fetch-error result is produced until both have settled with a response;
\* the generic-failure result is produced as soon as one call rejects, which
\* may be while the other is still outstanding.
C9_JoinOrFailFast ==
    /\ pc = "awaitAll"
       => (fetchCount = 2 /\ walmart # Idle /\ target # Idle /\ result = NoResult)
    /\ (FindTool /\ result # NoResult /\ fetchCount = 2)
       => \/ walmart.st = "resolved" /\ target.st = "resolved"
          \/ /\ result = FindFailure
             /\ (walmart.st = "rejected" \/ target.st = "rejected")

C9_Witness ==
    /\ FindTool
    /\ pc = "answered"
    /\ fetchCount = 2
    /\ walmart.st = "resolved"
    /\ target.st = "resolved"
    /\ Len(Items(result)) = 2

Awaiting == pc \in {"awaitAll", "awaitFetch"}
Outstanding ==
    \/ pc = "awaitAll" /\ (walmart = Pending \/ target = Pending)
    \/ pc = "awaitFetch" /\ extract = Pending

====
